---- MODULE Spec2Model ----
(***************************************************************************)
(* Model of src/src/app.py: the in-memory activity roster of the           *)
(* Mergington High School API, whose participant lists hold Fernet tokens  *)
(* of the students' emails, and the three request handlers over it         *)
(* (get_activities, signup_for_activity, unregister_from_activity).        *)
(*                                                                         *)
(* Spec      the handlers run one at a time, each as one atomic step.      *)
(* SpecCap   the same handlers, started from the roster in which Chess     *)
(*           Club has been filled to max_participants by signups.          *)
(* SpecConc  the handlers run on worker threads and interleave between     *)
(*           their statements (FastAPI runs `def` endpoints on a pool).    *)
(***************************************************************************)
EXTENDS Integers, Sequences, FiniteSets, TLC

VARIABLES ENCRYPTION_KEY, activities, last, calls, req

vars == <<ENCRYPTION_KEY, activities, last, calls, req>>

(* ------------------------------ bounds --------------------------------- *)
\* number of distinct keys the environment / Fernet.generate_key() may give
MaxKey == 2
\* number of distinct values of the per-call randomness of fernet.encrypt
MaxIV == 2
\* number of requests handled in one behaviour
MaxCalls == 3
\* number of worker threads handling requests at the same time
NumThreads == 2

Keys == 1..MaxKey
IVs == 1..MaxIV
Threads == 1..NumThreads

(* --------------------------- the seed data ----------------------------- *)
\* the literal of app.py lines 37-92, participants still in plaintext
SeedActivities ==
  [n \in {"Chess Club", "Programming Class", "Gym Class", "Soccer Team",
          "Basketball Team", "Art Club", "Drama Club", "Math Club",
          "Debate Team"} |->
    CASE n = "Chess Club" ->
           [description |-> "Learn strategies and compete in chess tournaments",
            schedule |-> "Fridays, 3:30 PM - 5:00 PM",
            max_participants |-> 12,
            participants |-> <<"michael@mergington.edu", "daniel@mergington.edu">>]
      [] n = "Programming Class" ->
           [description |-> "Learn programming fundamentals and build software projects",
            schedule |-> "Tuesdays and Thursdays, 3:30 PM - 4:30 PM",
            max_participants |-> 20,
            participants |-> <<"emma@mergington.edu", "sophia@mergington.edu">>]
      [] n = "Gym Class" ->
           [description |-> "Physical education and sports activities",
            schedule |-> "Mondays, Wednesdays, Fridays, 2:00 PM - 3:00 PM",
            max_participants |-> 30,
            participants |-> <<"john@mergington.edu", "olivia@mergington.edu">>]
      [] n = "Soccer Team" ->
           [description |-> "Join the school soccer team and compete in matches",
            schedule |-> "Tuesdays and Thursdays, 4:00 PM - 5:30 PM",
            max_participants |-> 22,
            participants |-> <<"liam@mergington.edu", "noah@mergington.edu">>]
      [] n = "Basketball Team" ->
           [description |-> "Practice and play basketball with the school team",
            schedule |-> "Wednesdays and Fridays, 3:30 PM - 5:00 PM",
            max_participants |-> 15,
            participants |-> <<"ava@mergington.edu", "mia@mergington.edu">>]
      [] n = "Art Club" ->
           [description |-> "Explore your creativity through painting and drawing",
            schedule |-> "Thursdays, 3:30 PM - 5:00 PM",
            max_participants |-> 15,
            participants |-> <<"amelia@mergington.edu", "harper@mergington.edu">>]
      [] n = "Drama Club" ->
           [description |-> "Act, direct, and produce plays and performances",
            schedule |-> "Mondays and Wednesdays, 4:00 PM - 5:30 PM",
            max_participants |-> 20,
            participants |-> <<"ella@mergington.edu", "scarlett@mergington.edu">>]
      [] n = "Math Club" ->
           [description |-> "Solve challenging problems and participate in math competitions",
            schedule |-> "Tuesdays, 3:30 PM - 4:30 PM",
            max_participants |-> 10,
            participants |-> <<"james@mergington.edu", "benjamin@mergington.edu">>]
      [] n = "Debate Team" ->
           [description |-> "Develop public speaking and argumentation skills",
            schedule |-> "Fridays, 4:00 PM - 5:30 PM",
            max_participants |-> 12,
            participants |-> <<"charlotte@mergington.edu", "henry@mergington.edu">>]]

SeedNames == DOMAIN SeedActivities

\* students that are not in the seed data
NewEmails ==
  <<"new@student.edu",
    "student01@mergington.edu", "student02@mergington.edu",
    "student03@mergington.edu", "student04@mergington.edu",
    "student05@mergington.edu", "student06@mergington.edu",
    "student07@mergington.edu", "student08@mergington.edu",
    "student09@mergington.edu", "student10@mergington.edu">>

\* every email string of the model, in a fixed order
EmailTable ==
  <<"michael@mergington.edu", "daniel@mergington.edu",
    "emma@mergington.edu", "sophia@mergington.edu",
    "john@mergington.edu", "olivia@mergington.edu",
    "liam@mergington.edu", "noah@mergington.edu",
    "ava@mergington.edu", "mia@mergington.edu",
    "amelia@mergington.edu", "harper@mergington.edu",
    "ella@mergington.edu", "scarlett@mergington.edu",
    "james@mergington.edu", "benjamin@mergington.edu",
    "charlotte@mergington.edu", "henry@mergington.edu">> \o NewEmails

(* ------------------------- the cipher provider ------------------------- *)
\* str.encode(): the bytes of an email, here its index in EmailTable
str_encode(email) == CHOOSE i \in 1..Len(EmailTable) : EmailTable[i] = email

\* bytes.decode()
bytes_decode(data) == EmailTable[data]

Modulus == Len(EmailTable) + 1

\* the HMAC of a Fernet token over its IV and ciphertext
fernet_hmac(key, iv, ct) == (7 * key + 3 * iv + ct) % Modulus

\* Fernet.encrypt: a token carries the randomness drawn for this call (the
\* IV and the timestamp, here iv), the ciphertext, which depends on the key,
\* on iv and on the data, and the HMAC.
fernet_encrypt(key, iv, data) ==
  LET ct == (data + key + iv) % Modulus
  IN  [iv |-> iv, ct |-> ct, mac |-> fernet_hmac(key, iv, ct)]

\* the exception cryptography.fernet.InvalidToken
InvalidToken == "InvalidToken"

\* Fernet.decrypt: verifies the HMAC, then inverts the encryption
fernet_decrypt(key, token) ==
  IF token.mac # fernet_hmac(key, token.iv, token.ct)
  THEN [ok |-> FALSE, data |-> 0]
  ELSE [ok |-> TRUE, data |-> (token.ct + 2 * Modulus - key - token.iv) % Modulus]

\* encrypt_email; iv is the randomness fernet.encrypt draws in this call.
\* Two calls may draw different values (the usual case: the token of an
\* email then differs from the stored one) or the same value (possible,
\* though of negligible probability for a 128-bit IV).
encrypt_email(email, iv) == fernet_encrypt(ENCRYPTION_KEY, iv, str_encode(email))

\* decrypt_email
decrypt_email(token) ==
  LET r == fernet_decrypt(ENCRYPTION_KEY, token)
  IN  IF r.ok THEN bytes_decode(r.data) ELSE InvalidToken

(* --------------------------- list operations --------------------------- *)
\* x in list
list_contains(list, x) == \E i \in 1..Len(list) : list[i] = x

\* list.index(x): the position of the first element equal to x
list_index(list, x) ==
  CHOOSE i \in 1..Len(list) : list[i] = x /\ \A j \in 1..(i - 1) : list[j] # x

\* list.insert(0, x) in place of list.append(x)
list_append_front(list, x) == <<x>> \o list

\* list.append(x)
list_append(list, x) == Append(list, x)

\* list.remove(x), for x in list: removes the first element equal to x
list_remove(list, x) ==
  LET k == list_index(list, x)
  IN  [i \in 1..(Len(list) - 1) |-> IF i < k THEN list[i] ELSE list[i + 1]]

(* ----------------------------- the roster ------------------------------ *)
\* the module-level dict `activities`: every participant of the literal is
\* sealed by encrypt_email when the module is loaded
seal_roster(key, iv) ==
  [n \in SeedNames |->
    [SeedActivities[n] EXCEPT
      !.participants =
        [i \in 1..Len(SeedActivities[n].participants) |->
          fernet_encrypt(key, iv, str_encode(SeedActivities[n].participants[i]))]]]

\* the participants decrypted in reverse order
decrypt_all_reversed(participants) ==
  [i \in 1..Len(participants) |-> decrypt_email(participants[Len(participants) + 1 - i])]

\* [decrypt_email(e) for e in info["participants"]]
decrypt_all(participants) ==
  [i \in 1..Len(participants) |-> decrypt_email(participants[i])]

\* get_activities: a copy of every record with its participants decrypted;
\* an InvalidToken raised by decrypt_email fails the request
get_activities_call(roster) ==
  IF \E n \in DOMAIN roster : list_contains(decrypt_all(roster[n].participants), InvalidToken)
  THEN [status |-> 500, body |-> [n \in {} |-> n]]
  ELSE [status |-> 200,
        body |-> [n \in DOMAIN roster |->
                   [roster[n] EXCEPT !.participants = decrypt_all(roster[n].participants)]]]

\* line 119 / line 148: activity_name not in activities
activity_not_found(roster, activity_name) == activity_name \notin DOMAIN roster

\* line 129: encrypted_email in activity["participants"]
already_signed_up(participants, encrypted_email) ==
  list_contains(participants, encrypted_email)

\* the check of line 157 without its `not`
not_signed_up_inverted(participants, encrypted_email) ==
  list_contains(participants, encrypted_email)

\* line 157: encrypted_email not in activity["participants"]
not_signed_up(participants, encrypted_email) ==
  ~list_contains(participants, encrypted_email)

\* signup_for_activity with a capacity check before the append
signup_call_with_capacity(roster, activity_name, email, iv) ==
  IF activity_not_found(roster, activity_name)
  THEN [status |-> 404, roster |-> roster, sealed |-> FALSE]
  ELSE LET encrypted_email == encrypt_email(email, iv)
       IN  IF already_signed_up(roster[activity_name].participants, encrypted_email)
           THEN [status |-> 400, roster |-> roster, sealed |-> TRUE]
           ELSE IF Len(roster[activity_name].participants)
                     >= roster[activity_name].max_participants
           THEN [status |-> 400, roster |-> roster, sealed |-> TRUE]
           ELSE [status |-> 200,
                 roster |-> [roster EXCEPT ![activity_name].participants =
                                              list_append(@, encrypted_email)],
                 sealed |-> TRUE]

\* signup_for_activity as a function of the roster: the response status,
\* the roster it leaves and whether encrypt_email was called
signup_call(roster, activity_name, email, iv) ==
  IF activity_not_found(roster, activity_name)
  THEN [status |-> 404, roster |-> roster, sealed |-> FALSE]
  ELSE LET encrypted_email == encrypt_email(email, iv)
       IN  IF already_signed_up(roster[activity_name].participants, encrypted_email)
           THEN [status |-> 400, roster |-> roster, sealed |-> TRUE]
           ELSE [status |-> 200,
                 roster |-> [roster EXCEPT ![activity_name].participants =
                                              list_append(@, encrypted_email)],
                 sealed |-> TRUE]

\* unregister_from_activity sealing the email before it validates the activity
unregister_call_seal_first(roster, activity_name, email, iv) ==
  LET encrypted_email == encrypt_email(email, iv)
  IN  IF activity_not_found(roster, activity_name)
      THEN [status |-> 404, roster |-> roster, sealed |-> TRUE]
      ELSE IF not_signed_up(roster[activity_name].participants, encrypted_email)
      THEN [status |-> 400, roster |-> roster, sealed |-> TRUE]
      ELSE [status |-> 200,
            roster |-> [roster EXCEPT ![activity_name].participants =
                                         list_remove(@, encrypted_email)],
            sealed |-> TRUE]

\* unregister_from_activity as a function of the roster; list.remove raises
\* ValueError (an unhandled exception, status 500) when the token is absent
unregister_call(roster, activity_name, email, iv) ==
  IF activity_not_found(roster, activity_name)
  THEN [status |-> 404, roster |-> roster, sealed |-> FALSE]
  ELSE LET encrypted_email == encrypt_email(email, iv)
       IN  IF not_signed_up(roster[activity_name].participants, encrypted_email)
           THEN [status |-> 400, roster |-> roster, sealed |-> TRUE]
           ELSE IF ~list_contains(roster[activity_name].participants, encrypted_email)
           THEN [status |-> 500, roster |-> roster, sealed |-> TRUE]
           ELSE [status |-> 200,
                 roster |-> [roster EXCEPT ![activity_name].participants =
                                              list_remove(@, encrypted_email)],
                 sealed |-> TRUE]

(* ------------------------------- inputs -------------------------------- *)
\* the activity names and emails the requests of the model carry
InputNames == {"Chess Club", "Math Club", "Nonexistent Club"}
InputEmails == {"michael@mergington.edu", "new@student.edu"}

NoToken == [iv |-> 0, ct |-> 0, mac |-> 0]

\* a worker thread that is not handling a request
IdleRequest ==
  [pc |-> "idle", op |-> "none", activity_name |-> "", email |-> "",
   encrypted_email |-> NoToken, status |-> 0]

\* no request handled yet
NoCall ==
  [op |-> "none", activity_name |-> "", email |-> "", status |-> 0,
   sealed |-> FALSE, before |-> [n \in {} |-> n], body |-> [n \in {} |-> n]]

(* ------------------------------- Init ---------------------------------- *)
\* The state after the module is loaded.  The key is the environment's or a
\* generated one.  The 18 encrypt_email calls of the literal each draw their
\* own randomness; tokens are only ever compared within one participant
\* list and the seeded emails of a list differ, so the model draws one value
\* for all of them.
Init ==
  /\ ENCRYPTION_KEY \in Keys
  /\ \E iv \in IVs : activities = seal_roster(ENCRYPTION_KEY, iv)
  /\ last = NoCall
  /\ calls = 0
  /\ req = [t \in Threads |-> IdleRequest]

(* --------------------- the handlers, one at a time ---------------------- *)
\* GET /activities
get_activities ==
  /\ calls < MaxCalls
  /\ calls' = calls + 1
  /\ LET r == get_activities_call(activities)
     IN  last' = [op |-> "list", activity_name |-> "", email |-> "",
                  status |-> r.status, sealed |-> FALSE,
                  before |-> activities, body |-> r.body]
  /\ UNCHANGED <<ENCRYPTION_KEY, activities, req>>

\* POST /activities/{activity_name}/signup?email=...
signup_for_activity(activity_name, email, iv) ==
  /\ calls < MaxCalls
  /\ calls' = calls + 1
  /\ LET r == signup_call(activities, activity_name, email, iv)
     IN  /\ activities' = r.roster
         /\ last' = [op |-> "signup", activity_name |-> activity_name,
                     email |-> email, status |-> r.status, sealed |-> r.sealed,
                     before |-> activities, body |-> [n \in {} |-> n]]
  /\ UNCHANGED <<ENCRYPTION_KEY, req>>

\* DELETE /activities/{activity_name}/unregister?email=...
unregister_from_activity(activity_name, email, iv) ==
  /\ calls < MaxCalls
  /\ calls' = calls + 1
  /\ LET r == unregister_call(activities, activity_name, email, iv)
     IN  /\ activities' = r.roster
         /\ last' = [op |-> "unregister", activity_name |-> activity_name,
                     email |-> email, status |-> r.status, sealed |-> r.sealed,
                     before |-> activities, body |-> [n \in {} |-> n]]
  /\ UNCHANGED <<ENCRYPTION_KEY, req>>

Signup == \E n \in InputNames, e \in InputEmails, iv \in IVs : signup_for_activity(n, e, iv)

Unregister == \E n \in InputNames, e \in InputEmails, iv \in IVs : unregister_from_activity(n, e, iv)

Next == get_activities \/ Signup \/ Unregister

Spec == Init /\ [][Next]_vars

(* ------------------- starting from a full activity --------------------- *)
\* the roster after signup_for_activity has enrolled students k, k+1, ... of
\* NewEmails into activity n until it holds max_participants participants
\* (each intermediate roster is bound to r, so it is computed once)
RECURSIVE FillActivity(_, _, _, _)
FillActivity(roster, n, k, iv) ==
  IF Len(roster[n].participants) >= roster[n].max_participants
  THEN roster
  ELSE CHOOSE filled \in {FillActivity(r, n, k + 1, iv) :
                            r \in {signup_call(roster, n, NewEmails[k], iv).roster}} : TRUE

\* Chess Club (max_participants = 12) holds its 2 seeded participants and
\* student01 .. student10, enrolled by 10 successful signups
InitCap ==
  /\ ENCRYPTION_KEY \in Keys
  /\ \E iv \in IVs :
       activities = FillActivity(seal_roster(ENCRYPTION_KEY, iv), "Chess Club", 2, iv)
  /\ last = NoCall
  /\ calls = 0
  /\ req = [t \in Threads |-> IdleRequest]

SpecCap == InitCap /\ [][Next]_vars

(* ------------------ the handlers on concurrent threads ------------------ *)
\* lines 119-123 / 148-152: a thread takes a request and validates that the
\* activity exists
BeginRequest(t, op, activity_name, email) ==
  /\ req[t].pc \in {"idle", "done"}
  /\ calls < MaxCalls
  /\ calls' = calls + 1
  /\ req' = [req EXCEPT ![t] =
       IF activity_not_found(activities, activity_name)
       THEN [pc |-> "done", op |-> op, activity_name |-> activity_name,
             email |-> email, encrypted_email |-> NoToken, status |-> 404]
       ELSE [pc |-> "seal", op |-> op, activity_name |-> activity_name,
             email |-> email, encrypted_email |-> NoToken, status |-> 0]]
  /\ UNCHANGED <<ENCRYPTION_KEY, activities, last>>

\* line 126 / 154: encrypted_email = encrypt_email(email)
SealEmail(t, iv) ==
  /\ req[t].pc = "seal"
  /\ req' = [req EXCEPT ![t].encrypted_email = encrypt_email(req[t].email, iv),
                        ![t].pc = "check"]
  /\ UNCHANGED <<ENCRYPTION_KEY, activities, last, calls>>

\* lines 129-133 / 157-161: the membership check
CheckMembership(t) ==
  /\ req[t].pc = "check"
  /\ LET participants == activities[req[t].activity_name].participants
         rejected == IF req[t].op = "signup"
                     THEN already_signed_up(participants, req[t].encrypted_email)
                     ELSE not_signed_up(participants, req[t].encrypted_email)
     IN  req' = [req EXCEPT ![t].pc = IF rejected THEN "done" ELSE "act",
                            ![t].status = IF rejected THEN 400 ELSE 0]
  /\ UNCHANGED <<ENCRYPTION_KEY, activities, last, calls>>

\* lines 136-137 / 164-165: append or remove the token; list.remove raises
\* ValueError (status 500) when the token is no longer in the list
MutateRoster(t) ==
  /\ req[t].pc = "act"
  /\ LET n == req[t].activity_name
         token == req[t].encrypted_email
     IN  IF req[t].op = "signup"
         THEN /\ activities' = [activities EXCEPT ![n].participants = list_append(@, token)]
              /\ req' = [req EXCEPT ![t].pc = "done", ![t].status = 200]
         ELSE IF list_contains(activities[n].participants, token)
         THEN /\ activities' = [activities EXCEPT ![n].participants = list_remove(@, token)]
              /\ req' = [req EXCEPT ![t].pc = "done", ![t].status = 200]
         ELSE /\ activities' = activities
              /\ req' = [req EXCEPT ![t].pc = "done", ![t].status = 500]
  /\ UNCHANGED <<ENCRYPTION_KEY, last, calls>>

Begin ==
  \E t \in Threads, op \in {"signup", "unregister"}, n \in InputNames, e \in InputEmails :
    BeginRequest(t, op, n, e)

Seal == \E t \in Threads, iv \in IVs : SealEmail(t, iv)

Check == \E t \in Threads : CheckMembership(t)

Mutate == \E t \in Threads : MutateRoster(t)

NextConc == Begin \/ Seal \/ Check \/ Mutate

SpecConc == Init /\ [][NextConc]_vars

(* ------------------------- notions of the claims ----------------------- *)
\* the plaintext emails behind the participant tokens of activity n
Plaintexts(roster, n) == decrypt_all(roster[n].participants)

NoDuplicates(list) ==
  \A i, j \in 1..Len(list) : i # j => list[i] # list[j]

\* the last request was op on an existing activity
LastOn(op) == last.op = op /\ last.activity_name \in DOMAIN last.before

\* ... with an email that was not among the activity's plaintext participants
LastOnNotEnrolled(op) ==
  /\ LastOn(op)
  /\ ~list_contains(Plaintexts(last.before, last.activity_name), last.email)

\* this step handles a request op for the activity and email of the last one
RepeatsLastWith(op) ==
  /\ calls' = calls + 1
  /\ last'.op = op
  /\ last'.activity_name = last.activity_name
  /\ last'.email = last.email

(* -------------------------------- C1 ----------------------------------- *)
\* C1: in every state reached by serially executed signup and unregister
\* calls, no activity's participant list holds the same plaintext email twice.
C1_NoDuplicateEmail ==
  \A n \in DOMAIN activities : NoDuplicates(Plaintexts(activities, n))

(* -------------------------------- C2 ----------------------------------- *)
\* C2: signup(A, e) for an email not enrolled in A succeeds, and a signup(A, e)
\* that follows it immediately is rejected with status 400 and leaves the
\* roster as the first call left it.
C2_SecondEnrollRejected ==
  [][/\ LastOnNotEnrolled("signup") => last.status = 200
     /\ (LastOnNotEnrolled("signup") /\ RepeatsLastWith("signup"))
          => (last'.status = 400 /\ activities' = activities)]_vars

(* -------------------------------- C3 ----------------------------------- *)
\* C3: signup(A, e) for an email not enrolled in A succeeds and makes the
\* listed participants of A the previous ones followed by e; an unregister(A, e)
\* that follows it immediately succeeds and makes the listed participants of A
\* the previous ones again, in their order.
C3_EnrollThenWithdrawRestores ==
  [][/\ LastOnNotEnrolled("signup")
          => /\ last.status = 200
             /\ Plaintexts(activities, last.activity_name)
                  = Append(Plaintexts(last.before, last.activity_name), last.email)
     /\ (LastOnNotEnrolled("signup") /\ RepeatsLastWith("unregister"))
          => /\ last'.status = 200
             /\ Plaintexts(activities', last.activity_name)
                  = Plaintexts(last.before, last.activity_name)]_vars

(* -------------------------------- C4 ----------------------------------- *)
\* C4: unregister(A, e) for an existing activity A and an email e that is not
\* among A's plaintext participants is rejected with status 400 and leaves the
\* whole roster unchanged.
C4_WithdrawNotEnrolled ==
  LastOnNotEnrolled("unregister") => (last.status = 400 /\ activities = last.before)

C4_Witness ==
  /\ LastOnNotEnrolled("unregister")
  /\ last.email = "new@student.edu"
  /\ last.status = 400

(* -------------------------------- C5 ----------------------------------- *)
\* C5: signup and unregister for a name that is not a key of the roster are
\* rejected with status 404 before the email is sealed, and the roster (its
\* keys and every participant list) is unchanged.
C5_ActivityNotFound ==
  (last.op \in {"signup", "unregister"} /\ last.activity_name \notin DOMAIN last.before)
    => /\ last.status = 404
       /\ ~last.sealed
       /\ activities = last.before

C5_Witness ==
  /\ last.op = "unregister"
  /\ last.activity_name = "Nonexistent Club"
  /\ last.status = 404
  /\ Len(activities["Chess Club"].participants) = 3

(* -------------------------------- C7 ----------------------------------- *)
\* C7: get_activities always succeeds and returns, for each activity, exactly
\* the plaintext emails whose tokens are stored for it, in stored order; on
\* the initial state these are the 2 seeded emails of each of the 9
\* activities; get_activities does not modify the roster.
C7_ListRoundTrip ==
  LET r == get_activities_call(activities)
  IN  /\ r.status = 200
      /\ DOMAIN r.body = DOMAIN activities
      /\ \A n \in DOMAIN activities :
           /\ Len(r.body[n].participants) = Len(activities[n].participants)
           /\ \A i \in 1..Len(activities[n].participants) :
                \E iv \in IVs :
                  encrypt_email(r.body[n].participants[i], iv) = activities[n].participants[i]
      /\ calls = 0 => (Cardinality(DOMAIN r.body) = 9 /\ r.body = SeedActivities)
      /\ last.op = "list"
           => /\ last.status = 200
              /\ last.body = r.body
              /\ activities = last.before

C7_Witness ==
  /\ last.op = "list"
  /\ last.status = 200
  /\ last.body["Chess Club"].participants
       = <<"michael@mergington.edu", "daniel@mergington.edu", "new@student.edu">>

(* -------------------------------- C10 ---------------------------------- *)
\* C10: after any sequence of signup and unregister calls the roster's keys
\* are the 9 seeded names and every description, schedule and
\* max_participants is the seeded one; a successful signup(A, e) lengthens A's
\* participant list by one entry at its end, a successful unregister(A, e)
\* shortens it by one entry, and both leave every other activity's list
\* unchanged.
C10_Frame ==
  /\ DOMAIN activities = SeedNames
  /\ Cardinality(DOMAIN activities) = 9
  /\ \A n \in SeedNames :
       /\ activities[n].description = SeedActivities[n].description
       /\ activities[n].schedule = SeedActivities[n].schedule
       /\ activities[n].max_participants = SeedActivities[n].max_participants
  /\ (last.op \in {"signup", "unregister"} /\ last.status = 200)
       => \A n \in SeedNames \ {last.activity_name} : activities[n] = last.before[n]
  /\ (last.op = "signup" /\ last.status = 200)
       => LET old == last.before[last.activity_name].participants
              new == activities[last.activity_name].participants
          IN  /\ Len(new) = Len(old) + 1
              /\ SubSeq(new, 1, Len(old)) = old
              /\ decrypt_email(new[Len(new)]) = last.email
  /\ (last.op = "unregister" /\ last.status = 200)
       => LET old == last.before[last.activity_name].participants
              new == activities[last.activity_name].participants
          IN  /\ Len(new) = Len(old) - 1
              /\ \E k \in 1..Len(old) :
                   /\ decrypt_email(old[k]) = last.email
                   /\ new = SubSeq(old, 1, k - 1) \o SubSeq(old, k + 1, Len(old))

C10_Witness ==
  /\ last.op = "unregister"
  /\ last.status = 200
  /\ last.activity_name = "Chess Club"
  /\ Len(activities["Math Club"].participants) = 3

(* -------------------------------- C6 ----------------------------------- *)
\* C6: signup(A, e) for an existing activity A and an email e not enrolled in
\* A succeeds and appends e, also when A already holds max_participants
\* participants or more.
C6_NoCapacityCheck ==
  LastOnNotEnrolled("signup")
    => /\ last.status = 200
       /\ Plaintexts(activities, last.activity_name)
            = Append(Plaintexts(last.before, last.activity_name), last.email)

C6_Witness ==
  /\ LastOnNotEnrolled("signup")
  /\ last.activity_name = "Chess Club"
  /\ Len(last.before["Chess Club"].participants) >= last.before["Chess Club"].max_participants
  /\ last.status = 200
  /\ Len(activities["Chess Club"].participants) = 13
  /\ Len(activities["Chess Club"].participants) > activities["Chess Club"].max_participants

(* -------------------------------- C8 ----------------------------------- *)
\* C8: when requests are serialized, no signup appends an email that the
\* activity's participant list already holds, so no list holds an email
\* twice (only interleaved signups can both pass the check and both append).
C8_SerializedNeverAppendsTwice ==
  (LastOn("signup") /\ last.status = 200)
    => ~list_contains(Plaintexts(last.before, last.activity_name), last.email)

====
